---- MODULE Spec2Model ----
(***************************************************************************)
(* Half-edge mesh of plexus: the mutation API of graph/mesh.rs             *)
(* (insert_vertex, insert_edge, insert_face, remove_face) and the bulk     *)
(* construction Mesh::from_iter, as state machines over the three keyed    *)
(* storages of a Mesh; the storage container Core of graph/container.rs    *)
(* and the index buffer ConjointBuffer of buffer/conjoint.rs.              *)
(***************************************************************************)
EXTENDS Integers, Sequences, FiniteSets, TLC

\* ------------------------------------------------------------------ bounds
MaxCalls == 6         \* calls of the mutation API in a run, any arguments
MaxValidCalls == 9    \* calls in a run that keeps to the documented arguments
MaxArity == 3         \* longest edge list handed to insert_face
MaxTriangles == 2     \* longest triangle stream handed to from_iter
NumPositions == 3     \* distinct vertex geometries in a triangle stream
MaxGeometryTriangles == 1  \* longest stream of a mesh whose geometry is converted
MaxConversions == 2   \* geometry conversions of one mesh in a row
NumStorages == 2      \* distinct storages handed to Core::bind
MaxAppends == 3       \* appends to one ConjointBuffer
NumBufferPositions == 2  \* distinct vertex geometries of a buffer that is appended

\* ------------------------------------------------------------------ state
VARIABLES
    vertices,   \* Mesh.vertices : VertexKey -> Vertex
    edges,      \* Mesh.edges    : EdgeKey   -> Edge
    faces,      \* Mesh.faces    : FaceKey   -> Face
    vgen,       \* key generator of the vertex storage
    fgen,       \* key generator of the face storage
    arity,      \* history: edges.len() of the insert_face that made a face
    last,       \* the call just made: operation, arguments, outcome
    calls,      \* calls of the mutation API made so far
    input,      \* what a run is given: the triangle stream handed to
                \* from_iter, the storages handed to Core::bind
    core,       \* a Core: its slots vertices, arcs, edges, faces
    buffer      \* a ConjointBuffer: its indeces and vertices

vars == <<vertices, edges, faces, vgen, fgen, arity, last, calls, input, core, buffer>>

\* Option<T>: None is the empty tuple, Some(x) the one-element tuple.
None == <<>>
Some(x) == <<x>>


\* The payload of Mesh<()>, and G::Edge::default() and G::Face::default().
Default == 0

\* ---------------------------------------------------------------- records
VertexNew(geometry) == [geometry |-> geometry, edge |-> None]

EdgeNew(vertex, geometry) ==
    [geometry |-> geometry, vertex |-> vertex,
     opposite |-> None, next |-> None, face |-> None]

FaceNew(edge, geometry) == [geometry |-> geometry, edge |-> edge]

\* ---------------------------------------------------------------- storage
InsertWithKey(storage, key, value) ==
    [k \in (DOMAIN storage) \cup {key} |-> IF k = key THEN value ELSE storage[k]]

Remove(storage, key) ==
    [k \in (DOMAIN storage) \ {key} |-> storage[k]]

\* A mesh value: the three storages, their key generators and the arity
\* history.
MeshNew ==
    [vertices |-> <<>>, edges |-> <<>>, faces |-> <<>>,
     vgen |-> 0, fgen |-> 0, arity |-> <<>>]

Outcome(m, result, ret) == [m |-> m, result |-> result, ret |-> ret]

vertex_count(m) == Cardinality(DOMAIN m.vertices)
edge_count(m) == Cardinality(DOMAIN m.edges)
face_count(m) == Cardinality(DOMAIN m.faces)

\* ------------------------------------------------------------ Core, buffer
\* The type () of a slot of a Core that holds no storage.
Unit == 0

\* Core::empty
CoreEmpty == [vertices |-> Unit, arcs |-> Unit, edges |-> Unit, faces |-> Unit]

\* ConjointBuffer::default
BufferDefault == [indeces |-> <<>>, vertices |-> <<>>]

\* ---------------------------------------------------------- insert_vertex
\* insert_vertex with a key generator that is not advanced.
InsertVertexStaleKey(m, geometry) ==
    Outcome([m EXCEPT !.vertices = InsertWithKey(m.vertices, m.vgen, VertexNew(geometry)),
                      !.vgen = IF m.vgen = 0 THEN 1 ELSE m.vgen],
            "Ok", Some(IF m.vgen = 0 THEN 0 ELSE m.vgen - 1))

InsertVertex(m, geometry) ==
    Outcome([m EXCEPT !.vertices = InsertWithKey(m.vertices, m.vgen, VertexNew(geometry)),
                      !.vgen = m.vgen + 1],
            "Ok", Some(m.vgen))

\* ------------------------------------------------------------ insert_edge
\* insert_edge without the write to the opposite edge's record.
InsertEdgeOneWay(m, a, b, geometry) ==
    LET ab == <<a, b>>
        ba == <<b, a>>
        edge == IF ba \in DOMAIN m.edges
                THEN [EdgeNew(b, geometry) EXCEPT !.opposite = Some(ba)]
                ELSE EdgeNew(b, geometry)
        stored == InsertWithKey(m.edges, ab, edge)
    IN  IF a \notin DOMAIN m.vertices
        THEN Outcome([m EXCEPT !.edges = stored], "Panic", None)
        ELSE Outcome([m EXCEPT !.edges = stored,
                               !.vertices[a].edge = Some(ab)],
                     "Ok", Some(ab))

\* insert_edge that stores the source vertex in the edge.
InsertEdgeSourceVertex(m, a, b, geometry) ==
    LET ab == <<a, b>>
        ba == <<b, a>>
        hasOpposite == ba \in DOMAIN m.edges
        edge == IF hasOpposite
                THEN [EdgeNew(a, geometry) EXCEPT !.opposite = Some(ba)]
                ELSE EdgeNew(a, geometry)
        linked == IF hasOpposite
                  THEN [m.edges EXCEPT ![ba].opposite = Some(ab)]
                  ELSE m.edges
        stored == InsertWithKey(linked, ab, edge)
    IN  IF a \notin DOMAIN m.vertices
        THEN Outcome([m EXCEPT !.edges = stored], "Panic", None)
        ELSE Outcome([m EXCEPT !.edges = stored,
                               !.vertices[a].edge = Some(ab)],
                     "Ok", Some(ab))

\* insert_edge that caches the edge only in a vertex with no cached edge.
InsertEdgeFirstCache(m, a, b, geometry) ==
    LET ab == <<a, b>>
        ba == <<b, a>>
        hasOpposite == ba \in DOMAIN m.edges
        edge == IF hasOpposite
                THEN [EdgeNew(b, geometry) EXCEPT !.opposite = Some(ba)]
                ELSE EdgeNew(b, geometry)
        linked == IF hasOpposite
                  THEN [m.edges EXCEPT ![ba].opposite = Some(ab)]
                  ELSE m.edges
        stored == InsertWithKey(linked, ab, edge)
    IN  IF a \notin DOMAIN m.vertices
        THEN Outcome([m EXCEPT !.edges = stored], "Panic", None)
        ELSE IF m.vertices[a].edge # None
             THEN Outcome([m EXCEPT !.edges = stored], "Ok", Some(ab))
             ELSE Outcome([m EXCEPT !.edges = stored,
                                    !.vertices[a].edge = Some(ab)],
                          "Ok", Some(ab))

InsertEdge(m, a, b, geometry) ==
    LET ab == <<a, b>>
        ba == <<b, a>>
        hasOpposite == ba \in DOMAIN m.edges
        edge == IF hasOpposite
                THEN [EdgeNew(b, geometry) EXCEPT !.opposite = Some(ba)]
                ELSE EdgeNew(b, geometry)
        linked == IF hasOpposite
                  THEN [m.edges EXCEPT ![ba].opposite = Some(ab)]
                  ELSE m.edges
        stored == InsertWithKey(linked, ab, edge)
    IN  IF a \notin DOMAIN m.vertices
        THEN Outcome([m EXCEPT !.edges = stored], "Panic", None)
        ELSE Outcome([m EXCEPT !.edges = stored,
                               !.vertices[a].edge = Some(ab)],
                     "Ok", Some(ab))

\* ------------------------------------------------------------ insert_face
\* connect_edges_in_face: the unwrap panics on a key with no record.
ConnectEdgesInFace(m, face, e0, e1) ==
    IF e0 \notin DOMAIN m.edges
    THEN Outcome(m, "Panic", None)
    ELSE Outcome([m EXCEPT !.edges[e0].next = Some(e1),
                           !.edges[e0].face = Some(face)],
                 "Ok", None)

\* The loop of insert_face from position index (1-based) to the end of the
\* list; it stops at the first panic with what was written until then.
RECURSIVE ConnectLoop(_, _, _, _)
ConnectLoop(m, face, es, index) ==
    IF index > Len(es)
    THEN Outcome(m, "Ok", Some(face))
    ELSE LET step == ConnectEdgesInFace(m, face, es[index], es[(index % Len(es)) + 1])
         IN  IF step.result = "Panic"
             THEN step
             ELSE ConnectLoop(step.m, face, es, index + 1)

\* insert_face with the arity test off by one.
InsertFaceArityTwo(m, es, geometry) ==
    IF Len(es) < 2
    THEN Outcome(m, "Err", None)
    ELSE LET face == m.fgen
             allocated == [m EXCEPT !.faces = InsertWithKey(m.faces, face, FaceNew(es[1], geometry)),
                                    !.fgen = m.fgen + 1,
                                    !.arity = InsertWithKey(m.arity, face, Len(es))]
         IN  ConnectLoop(allocated, face, es, 1)

\* insert_face that refuses an edge bound to a face.
InsertFaceUnbound(m, es, geometry) ==
    IF Len(es) < 3
    THEN Outcome(m, "Err", None)
    ELSE IF \E i \in 1 .. Len(es) : es[i] \in DOMAIN m.edges /\ m.edges[es[i]].face # None
         THEN Outcome(m, "Err", None)
         ELSE LET face == m.fgen
                  allocated == [m EXCEPT !.faces = InsertWithKey(m.faces, face, FaceNew(es[1], geometry)),
                                         !.fgen = m.fgen + 1,
                                         !.arity = InsertWithKey(m.arity, face, Len(es))]
              IN  ConnectLoop(allocated, face, es, 1)

InsertFace(m, es, geometry) ==
    IF Len(es) < 3
    THEN Outcome(m, "Err", None)
    ELSE LET face == m.fgen
             allocated == [m EXCEPT !.faces = InsertWithKey(m.faces, face, FaceNew(es[1], geometry)),
                                    !.fgen = m.fgen + 1,
                                    !.arity = InsertWithKey(m.arity, face, Len(es))]
         IN  ConnectLoop(allocated, face, es, 1)

\* ------------------------------------------------- FaceRef::edges (a view)
\* The boundary of a face: the keys met by following next from the face's
\* stored edge until the stored edge recurs.  The walk ends at an edge with
\* no next, panics on a key with no record, and does not end when next
\* leads into a cycle that misses the stored edge.
RECURSIVE EdgeCirculator(_, _, _, _)
EdgeCirculator(m, start, current, seen) ==
    IF current \notin DOMAIN m.edges
    THEN [status |-> "Panic", keys |-> seen]
    ELSE LET next == m.edges[current].next
             keys == Append(seen, current)
         IN  IF next = None \/ next = Some(start)
             THEN [status |-> "Ok", keys |-> keys]
             ELSE IF \E i \in 1 .. Len(keys) : keys[i] = next[1]
                  THEN [status |-> "Diverge", keys |-> keys]
                  ELSE EdgeCirculator(m, start, next[1], keys)

FaceEdges(m, face) == EdgeCirculator(m, m.faces[face].edge, m.faces[face].edge, <<>>)

\* ------------------------------------------------------------ remove_face
\* One pass of the loop of remove_face over the collected edge keys.
RemoveEdgeOfFace(m, edge) ==
    IF edge \notin DOMAIN m.edges
    THEN Outcome(m, "Panic", None)
    ELSE LET record == m.edges[edge]
             a == record.vertex
         IN  IF record.next # None /\ record.next[1] \notin DOMAIN m.edges
             THEN Outcome(m, "Panic", None)
             ELSE LET b == IF record.next = None
                           THEN None
                           ELSE Some(m.edges[record.next[1]].vertex)
                      ba == <<b[1], a>>
                      disconnected ==
                          IF b # None /\ ba \in DOMAIN m.edges
                          THEN [m EXCEPT !.edges[ba].opposite = None]
                          ELSE m
                  IN  IF a \notin DOMAIN m.vertices
                      THEN Outcome(disconnected, "Panic", None)
                      ELSE LET orphaned ==
                                   IF disconnected.vertices[a].edge = Some(edge)
                                   THEN [disconnected EXCEPT !.vertices[a].edge = None]
                                   ELSE disconnected
                           IN  Outcome([orphaned EXCEPT !.edges = Remove(orphaned.edges, edge)],
                                       "Ok", None)

RECURSIVE RemoveLoop(_, _, _)
RemoveLoop(m, keys, index) ==
    IF index > Len(keys)
    THEN Outcome(m, "Ok", None)
    ELSE LET step == RemoveEdgeOfFace(m, keys[index])
         IN  IF step.result = "Panic"
             THEN step
             ELSE RemoveLoop(step.m, keys, index + 1)

RemoveFace(m, face) ==
    IF face \notin DOMAIN m.faces
    THEN Outcome(m, "Panic", None)
    ELSE LET boundary == FaceEdges(m, face)
         IN  IF boundary.status # "Ok"
             THEN Outcome(m, boundary.status, None)
             ELSE LET removed == RemoveLoop(m, boundary.keys, 1)
                  IN  IF removed.result = "Panic"
                      THEN removed
                      ELSE Outcome([removed.m EXCEPT
                                        !.faces = Remove(removed.m.faces, face),
                                        !.arity = Remove(removed.m.arity, face)],
                                   "Ok", None)

\* ------------------------------------------------- the API as a state machine
\* The calls are those of a Mesh<()>: every payload is ().
Mesh ==
    [vertices |-> vertices, edges |-> edges, faces |-> faces,
     vgen |-> vgen, fgen |-> fgen, arity |-> arity]

Commit(out, op, arg) ==
    /\ vertices' = out.m.vertices
    /\ edges' = out.m.edges
    /\ faces' = out.m.faces
    /\ vgen' = out.m.vgen
    /\ fgen' = out.m.fgen
    /\ arity' = out.m.arity
    /\ last' = [op |-> op, arg |-> arg, result |-> out.result, ret |-> out.ret]
    /\ calls' = calls + 1
    /\ UNCHANGED <<input, core, buffer>>

\* A panic unwinds out of the caller and a walk that does not end never
\* returns: no call follows either.
Running == last.result \in {"Ok", "Err"} /\ calls < MaxCalls

\* A key with no record while calls are made: an edge is stored only from
\* a vertex key that was generated.
AbsentKey == <<vgen, vgen>>

\* The edge lists handed to insert_face: stored keys, then keys with no
\* record (insert_face reads no key that follows the first one without a
\* record).
EdgeLists ==
    UNION {{[i \in 1 .. n |-> IF i <= k THEN stored[i] ELSE AbsentKey] :
                stored \in [1 .. k -> DOMAIN edges]}
           : <<n, k>> \in {<<n, k>> \in (0 .. MaxArity) \X (0 .. MaxArity) : k <= n}}

Init ==
    /\ vertices = MeshNew.vertices
    /\ edges = MeshNew.edges
    /\ faces = MeshNew.faces
    /\ vgen = MeshNew.vgen
    /\ fgen = MeshNew.fgen
    /\ arity = MeshNew.arity
    /\ last = [op |-> "new", arg |-> <<>>, result |-> "Ok", ret |-> None]
    /\ calls = 0
    /\ input = <<>>
    /\ core = CoreEmpty
    /\ buffer = BufferDefault

CallInsertVertex ==
    /\ Running
    /\ \E out \in {InsertVertex(Mesh, Default)} :
           Commit(out, "insert_vertex", <<>>)

\* insert_edge is handed vertex keys the vertex storage generated, or the
\* next one, which it has not.
CallInsertEdge ==
    /\ Running
    /\ \E a \in 0 .. vgen, b \in 0 .. vgen :
           \E out \in {InsertEdge(Mesh, a, b, Default)} :
               Commit(out, "insert_edge", <<a, b>>)

CallInsertFace ==
    /\ Running
    /\ \E es \in EdgeLists :
           \E out \in {InsertFace(Mesh, es, Default)} :
               Commit(out, "insert_face", es)

\* remove_face is handed a key the face storage generated, or the next one,
\* which it has not.
CallRemoveFace ==
    /\ Running
    /\ \E face \in 0 .. fgen :
           \E out \in {RemoveFace(Mesh, face)} :
               Commit(out, "remove_face", <<face>>)

Next ==
    \/ CallInsertVertex
    \/ CallInsertEdge
    \/ CallInsertFace
    \/ CallRemoveFace

Spec == Init /\ [][Next]_vars

\* --------------------------------- the API called as its contract asks
\* The same calls with the arguments section 4.3 of the design asks for:
\* an edge between two existing, distinct vertices that is not stored yet;
\* a face over a closed cycle of distinct stored edges; the removal of a
\* face that exists.
ValidRunning == last.result \in {"Ok", "Err"} /\ calls < MaxValidCalls

ClosedCycles ==
    UNION {{es \in [1 .. n -> DOMAIN edges] :
               /\ \A i \in 1 .. n : es[i][2] = es[(i % n) + 1][1]
               /\ \A i, j \in 1 .. n : es[i] = es[j] => i = j}
           : n \in 3 .. MaxArity}

ValidInsertVertex ==
    /\ ValidRunning
    /\ \E out \in {InsertVertex(Mesh, Default)} :
           Commit(out, "insert_vertex", <<>>)

ValidInsertEdge ==
    /\ ValidRunning
    /\ \E a \in DOMAIN vertices, b \in DOMAIN vertices :
           /\ a # b
           /\ <<a, b>> \notin DOMAIN edges
           /\ \E out \in {InsertEdge(Mesh, a, b, Default)} :
                  Commit(out, "insert_edge", <<a, b>>)

ValidInsertFace ==
    /\ ValidRunning
    /\ \E es \in ClosedCycles :
           \E out \in {InsertFace(Mesh, es, Default)} :
               Commit(out, "insert_face", es)

ValidRemoveFace ==
    /\ ValidRunning
    /\ \E face \in DOMAIN faces :
           \E out \in {RemoveFace(Mesh, face)} :
               Commit(out, "remove_face", <<face>>)

NextValid ==
    \/ ValidInsertVertex
    \/ ValidInsertEdge
    \/ ValidInsertFace
    \/ ValidRemoveFace

SpecValid == Init /\ [][NextValid]_vars

\* ------------------------------------------------------- Mesh::from_iter
\* The stream handed to from_iter: triangles, each three vertex geometries.
Positions == 0 .. (NumPositions - 1)
Triangles == Positions \X Positions \X Positions

\* The vertex geometries of the stream in order (into_vertices).
RECURSIVE IntoVertices(_)
IntoVertices(stream) ==
    IF stream = <<>>
    THEN <<>>
    ELSE <<stream[1][1], stream[1][2], stream[1][3]>> \o IntoVertices(Tail(stream))

IndexOf(seq, value) == CHOOSE i \in 1 .. Len(seq) : seq[i] = value

\* index_vertices with a HashIndexer: equal geometries get one index, and
\* indices (0-based) are given in first-seen order.
RECURSIVE IndexVertices(_, _, _)
IndexVertices(flat, indeces, unique) ==
    IF flat = <<>>
    THEN [indeces |-> indeces, vertices |-> unique]
    ELSE IF \E i \in 1 .. Len(unique) : unique[i] = Head(flat)
         THEN IndexVertices(Tail(flat), Append(indeces, IndexOf(unique, Head(flat)) - 1), unique)
         ELSE IndexVertices(Tail(flat), Append(indeces, Len(unique)), Append(unique, Head(flat)))

\* from_iter inserting a vertex for every entry of the index list.
RECURSIVE InsertVerticesPerIndex(_, _, _, _)
InsertVerticesPerIndex(m, indexed, position, keys) ==
    IF position > Len(indexed.indeces)
    THEN [m |-> m, keys |-> keys]
    ELSE LET out == InsertVertex(m, indexed.vertices[indexed.indeces[position] + 1])
         IN  InsertVerticesPerIndex(out.m, indexed, position + 1, Append(keys, out.ret[1]))

\* The vertex keys of from_iter: one insert_vertex for each unique vertex.
RECURSIVE InsertVertices(_, _, _, _)
InsertVertices(m, indexed, position, keys) ==
    IF position > Len(indexed.vertices)
    THEN [m |-> m, keys |-> keys]
    ELSE LET out == InsertVertex(m, indexed.vertices[position])
         IN  InsertVertices(out.m, indexed, position + 1, Append(keys, out.ret[1]))

\* One pass of the loop of from_iter: the three edges of a triangle, then
\* its face; every insert is unwrapped.
InsertTriangle(m, a, b, c) ==
    LET ab == InsertEdge(m, a, b, Default)
        bc == InsertEdge(ab.m, b, c, Default)
        ca == InsertEdge(bc.m, c, a, Default)
    IN  IF ab.result # "Ok" THEN Outcome(ab.m, "Panic", None)
        ELSE IF bc.result # "Ok" THEN Outcome(bc.m, "Panic", None)
        ELSE IF ca.result # "Ok" THEN Outcome(ca.m, "Panic", None)
        ELSE LET face == InsertFace(ca.m, <<ab.ret[1], bc.ret[1], ca.ret[1]>>, Default)
             IN  IF face.result # "Ok"
                 THEN Outcome(face.m, "Panic", None)
                 ELSE face

\* The loop of from_iter over the chunks of three indices, from the chunk
\* that starts at position (1-based).
RECURSIVE TriangleLoop(_, _, _, _)
TriangleLoop(m, keys, indeces, position) ==
    IF position > Len(indeces)
    THEN Outcome(m, "Ok", None)
    ELSE LET out == InsertTriangle(m, keys[indeces[position] + 1],
                                      keys[indeces[position + 1] + 1],
                                      keys[indeces[position + 2] + 1])
         IN  IF out.result # "Ok"
             THEN out
             ELSE TriangleLoop(out.m, keys, indeces, position + 3)

FromIter(stream) ==
    LET indexed == IndexVertices(IntoVertices(stream), <<>>, <<>>)
        inserted == InsertVertices(MeshNew, indexed, 1, <<>>)
    IN  TriangleLoop(inserted.m, inserted.keys, indexed.indeces, 1)

\* The stream of the test collect_topology_into_mesh: a sphere of three
\* meridians and two parallels, which is six triangles over two poles
\* (3, 4) and three points of the equator (0, 1, 2).
UvSphere32 ==
    << <<0, 1, 3>>, <<1, 2, 3>>, <<2, 0, 3>>,
       <<1, 0, 4>>, <<2, 1, 4>>, <<0, 2, 4>> >>

IsStream(stream) ==
    \/ \E n \in 0 .. MaxTriangles : stream \in [1 .. n -> Triangles]
    \/ stream = UvSphere32

InitBulk ==
    /\ vertices = MeshNew.vertices
    /\ edges = MeshNew.edges
    /\ faces = MeshNew.faces
    /\ vgen = MeshNew.vgen
    /\ fgen = MeshNew.fgen
    /\ arity = MeshNew.arity
    /\ last = [op |-> "new", arg |-> <<>>, result |-> "Ok", ret |-> None]
    /\ calls = 0
    /\ IsStream(input)
    /\ core = CoreEmpty
    /\ buffer = BufferDefault

CallFromIter ==
    /\ last.op = "new"
    /\ \E out \in {FromIter(input)} :
           /\ vertices' = out.m.vertices
           /\ edges' = out.m.edges
           /\ faces' = out.m.faces
           /\ vgen' = out.m.vgen
           /\ fgen' = out.m.fgen
           /\ arity' = out.m.arity
           /\ last' = [op |-> "from_iter", arg |-> <<>>, result |-> out.result, ret |-> None]
    /\ calls' = calls + 1
    /\ UNCHANGED <<input, core, buffer>>

NextBulk == CallFromIter

SpecBulk == InitBulk /\ [][NextBulk]_vars

\* ------------------------------------------------- Mesh::from_geometry
\* The conversions between attribute types (FromGeometry of the payloads):
\* one that loses nothing, its inverse, and one that loses everything.
Conversions == {"widen", "narrow", "flatten"}

IntoGeometry(conversion, geometry) ==
    CASE conversion = "widen" -> geometry * 2
      [] conversion = "narrow" -> geometry \div 2
      [] conversion = "flatten" -> 0

VertexFromGeometry(vertex, conversion) ==
    [geometry |-> IntoGeometry(conversion, vertex.geometry),
     edge |-> vertex.edge]

\* The conversion of an edge made with Edge::new, which resets the links.
EdgeFromGeometryNew(edge, conversion) ==
    EdgeNew(edge.vertex, IntoGeometry(conversion, edge.geometry))

EdgeFromGeometry(edge, conversion) ==
    [geometry |-> IntoGeometry(conversion, edge.geometry),
     vertex |-> edge.vertex,
     opposite |-> edge.opposite,
     next |-> edge.next,
     face |-> edge.face]

FaceFromGeometry(face, conversion) ==
    [geometry |-> IntoGeometry(conversion, face.geometry),
     edge |-> face.edge]

\* Storage::map_values keeps the keys and the key generator of a storage
\* and maps every value.
MeshFromGeometry(m, conversion) ==
    Outcome([m EXCEPT
                 !.vertices = [key \in DOMAIN m.vertices |->
                                  VertexFromGeometry(m.vertices[key], conversion)],
                 !.edges = [key \in DOMAIN m.edges |->
                               EdgeFromGeometry(m.edges[key], conversion)],
                 !.faces = [key \in DOMAIN m.faces |->
                               FaceFromGeometry(m.faces[key], conversion)]],
            "Ok", None)

\* The meshes that are converted are built by from_iter.
IsGeometryStream(stream) ==
    \/ \E n \in 0 .. MaxGeometryTriangles : stream \in [1 .. n -> Triangles]
    \/ stream = UvSphere32

InitGeometry ==
    /\ vertices = MeshNew.vertices
    /\ edges = MeshNew.edges
    /\ faces = MeshNew.faces
    /\ vgen = MeshNew.vgen
    /\ fgen = MeshNew.fgen
    /\ arity = MeshNew.arity
    /\ last = [op |-> "new", arg |-> <<>>, result |-> "Ok", ret |-> None]
    /\ calls = 0
    /\ IsGeometryStream(input)
    /\ core = CoreEmpty
    /\ buffer = BufferDefault

CallFromGeometry ==
    /\ last.op \in {"from_iter", "from_geometry"}
    /\ last.result = "Ok"
    /\ calls < 1 + MaxConversions
    /\ \E conversion \in Conversions :
           \E out \in {MeshFromGeometry(Mesh, conversion)} :
               Commit(out, "from_geometry", <<conversion>>)

NextGeometry ==
    \/ CallFromIter
    \/ CallFromGeometry

SpecGeometry == InitGeometry /\ [][NextGeometry]_vars

\* ------------------------------------------------------------ Core::bind
\* The storages a run binds: one for each slot, in the order of the slots
\* vertices, arcs, edges, faces.
Storages == 1 .. NumStorages
Slots == <<"vertices", "arcs", "edges", "faces">>

\* Bind<Vertex<G>, V> for Core<(), A, E, F>, whose bind moves the slots of
\* self into the wrong fields of the new Core.
BindVerticesShifted(c, source) ==
    [vertices |-> source, arcs |-> c.edges, edges |-> c.faces, faces |-> c.arcs]

\* Bind<Vertex<G>, V> for Core<(), A, E, F>
BindVertices(c, source) ==
    [vertices |-> source, arcs |-> c.arcs, edges |-> c.edges, faces |-> c.faces]

\* Bind<Arc<G>, A> for Core<V, (), E, F>
BindArcs(c, source) ==
    [vertices |-> c.vertices, arcs |-> source, edges |-> c.edges, faces |-> c.faces]

\* Bind<Edge<G>, E> for Core<V, A, (), F>
BindEdges(c, source) ==
    [vertices |-> c.vertices, arcs |-> c.arcs, edges |-> source, faces |-> c.faces]

\* Bind<Face<G>, F> for Core<V, A, E, ()>
BindFaces(c, source) ==
    [vertices |-> c.vertices, arcs |-> c.arcs, edges |-> c.edges, faces |-> source]

\* Core::into_storage
IntoStorage(c) == <<c.vertices, c.arcs, c.edges, c.faces>>

InitCore ==
    /\ vertices = MeshNew.vertices
    /\ edges = MeshNew.edges
    /\ faces = MeshNew.faces
    /\ vgen = MeshNew.vgen
    /\ fgen = MeshNew.fgen
    /\ arity = MeshNew.arity
    /\ last = [op |-> "empty", arg |-> <<>>, result |-> "Ok", ret |-> None]
    /\ calls = 0
    /\ input \in Storages \X Storages \X Storages \X Storages
    /\ core = CoreEmpty
    /\ buffer = BufferDefault

\* A call on the Core: the mesh and the buffer are not involved.  A Core
\* that into_storage has consumed takes no further call.
CommitCore(c, op, arg, ret) ==
    /\ last.op # "into_storage"
    /\ core' = c
    /\ last' = [op |-> op, arg |-> arg, result |-> "Ok", ret |-> ret]
    /\ calls' = calls + 1
    /\ UNCHANGED <<vertices, edges, faces, vgen, fgen, arity, input, buffer>>

\* bind is implemented for a Core whose slot is (): the guard is the type
\* of self.
CallBindVertices ==
    /\ core.vertices = Unit
    /\ CommitCore(BindVertices(core, input[1]), "bind", <<"vertices", input[1]>>, None)

CallBindArcs ==
    /\ core.arcs = Unit
    /\ CommitCore(BindArcs(core, input[2]), "bind", <<"arcs", input[2]>>, None)

CallBindEdges ==
    /\ core.edges = Unit
    /\ CommitCore(BindEdges(core, input[3]), "bind", <<"edges", input[3]>>, None)

CallBindFaces ==
    /\ core.faces = Unit
    /\ CommitCore(BindFaces(core, input[4]), "bind", <<"faces", input[4]>>, None)

CallIntoStorage ==
    CommitCore(core, "into_storage", <<>>, Some(IntoStorage(core)))

NextCore ==
    \/ CallBindVertices
    \/ CallBindArcs
    \/ CallBindEdges
    \/ CallBindFaces
    \/ CallIntoStorage

SpecCore == InitCore /\ [][NextCore]_vars

\* ------------------------------------------------- ConjointBuffer::append
\* ConjointBuffer::from_iter: the index list and the unique vertices of the
\* indexer.
BufferFromIter(stream) ==
    LET indexed == IndexVertices(IntoVertices(stream), <<>>, <<>>)
    IN  [indeces |-> indexed.indeces, vertices |-> indexed.vertices]

\* append that takes the offset after it has moved the vertices.
BufferAppendLateOffset(self, other) ==
    LET moved == self.vertices \o other.vertices
        offset == Len(moved)
    IN  [self |-> [indeces |-> self.indeces \o
                                 [i \in 1 .. Len(other.indeces) |-> other.indeces[i] + offset],
                   vertices |-> moved],
         other |-> [indeces |-> <<>>, vertices |-> <<>>]]

\* append: the vertices of other are moved behind those of self and its
\* indices are drained, each raised by the vertex count self had.  The
\* index type is usize and a sum of two lengths of vectors does not wrap.
BufferAppend(self, other) ==
    LET offset == Len(self.vertices)
    IN  [self |-> [indeces |-> self.indeces \o
                                 [i \in 1 .. Len(other.indeces) |-> other.indeces[i] + offset],
                   vertices |-> self.vertices \o other.vertices],
         other |-> [indeces |-> <<>>, vertices |-> <<>>]]

\* The buffers that are appended: those from_iter collects from no polygon,
\* from one triangle, and from the sphere of the test
\* collect_topology_into_buffer.
BufferPositions == 0 .. (NumBufferPositions - 1)

OtherBuffers ==
    {BufferFromIter(stream) :
         stream \in {<<>>, UvSphere32} \cup
                    {<<triangle>> : triangle \in BufferPositions \X BufferPositions \X BufferPositions}}

InitBuffer ==
    /\ vertices = MeshNew.vertices
    /\ edges = MeshNew.edges
    /\ faces = MeshNew.faces
    /\ vgen = MeshNew.vgen
    /\ fgen = MeshNew.fgen
    /\ arity = MeshNew.arity
    /\ last = [op |-> "new", arg |-> <<>>, result |-> "Ok", ret |-> None]
    /\ calls = 0
    /\ input = <<>>
    /\ core = CoreEmpty
    /\ buffer = BufferDefault

CallAppend ==
    /\ calls < MaxAppends
    /\ \E other \in OtherBuffers :
           \E out \in {BufferAppend(buffer, other)} :
               /\ buffer' = out.self
               /\ last' = [op |-> "append", arg |-> <<other>>, result |-> "Ok",
                           ret |-> Some(out.other)]
    /\ calls' = calls + 1
    /\ UNCHANGED <<vertices, edges, faces, vgen, fgen, arity, input, core>>

NextBuffer == CallAppend

SpecBuffer == InitBuffer /\ [][NextBuffer]_vars

\* ------------------------------------------------------------------ claims
\* Which call a step of the API specification is.
IsCall(op) == calls' = calls + 1 /\ last'.op = op
IsInsertVertex == IsCall("insert_vertex")
IsInsertEdge == IsCall("insert_edge")
IsInsertFace == IsCall("insert_face")
IsRemoveFace == IsCall("remove_face")

Reverse(key) == <<key[2], key[1]>>

\* C1: for two distinct existing vertex keys a and b, insert_edge((b,a))
\* made when (a,b) is stored leaves (a,b) and (b,a) with opposite fields
\* naming each other; insert_edge((a,b)) made when (b,a) is not stored
\* leaves (a,b) with opposite = None, and that field stays None until the
\* reverse edge is inserted.
C1_OppositePairing ==
    [][/\ IsInsertEdge =>
              LET ab == <<last'.arg[1], last'.arg[2]>>
                  ba == Reverse(ab)
              IN  (ab[1] # ab[2] /\ {ab[1], ab[2]} \subseteq DOMAIN vertices) =>
                      /\ last'.result = "Ok"
                      /\ ba \in DOMAIN edges =>
                             /\ edges'[ab].opposite = Some(ba)
                             /\ edges'[ba].opposite = Some(ab)
                      /\ ba \notin DOMAIN edges => edges'[ab].opposite = None
       /\ \A key \in (DOMAIN edges) \cap (DOMAIN edges') :
              (edges[key].opposite = None /\ edges'[key].opposite # None) =>
                  /\ IsInsertEdge
                  /\ last'.arg \in {key, Reverse(key)}
                  /\ Reverse(key) \in DOMAIN edges'
      ]_vars

C1_Witness ==
    /\ last.op = "insert_edge"
    /\ last.result = "Ok"
    /\ last.arg[1] # last.arg[2]
    /\ {last.arg[1], last.arg[2]} \subseteq DOMAIN vertices
    /\ Reverse(last.arg) \in DOMAIN edges
    /\ edges[last.arg].opposite = Some(Reverse(last.arg))
    /\ edges[Reverse(last.arg)].opposite = Some(last.arg)

\* C2: insert_face with a list of fewer than 3 edge keys returns an error
\* and changes neither vertex_count, edge_count, face_count nor the next or
\* face field of any edge.
C2_ShortListRejected ==
    [][(IsInsertFace /\ Len(last'.arg) < 3) =>
           /\ last'.result = "Err"
           /\ Cardinality(DOMAIN vertices') = Cardinality(DOMAIN vertices)
           /\ Cardinality(DOMAIN edges') = Cardinality(DOMAIN edges)
           /\ Cardinality(DOMAIN faces') = Cardinality(DOMAIN faces)
           /\ DOMAIN edges' = DOMAIN edges
           /\ \A key \in DOMAIN edges :
                  /\ edges'[key].next = edges[key].next
                  /\ edges'[key].face = edges[key].face
      ]_vars

C2_Witness ==
    /\ last.op = "insert_face"
    /\ Len(last.arg) = 2
    /\ last.arg[1] \in DOMAIN edges
    /\ last.arg[2] \in DOMAIN edges
    /\ last.result = "Err"

\* Following next from current for the given number of steps ends at start,
\* and every edge left on the way is stored and bound to face.
RECURSIVE ClosedWalk(_, _, _, _, _)
ClosedWalk(m, face, start, current, steps) ==
    IF steps = 0
    THEN current = start
    ELSE /\ current \in DOMAIN m.edges
         /\ m.edges[current].face = Some(face)
         /\ m.edges[current].next # None
         /\ ClosedWalk(m, face, start, m.edges[current].next[1], steps - 1)

Closure(m, face) ==
    ClosedWalk(m, face, m.faces[face].edge, m.faces[face].edge, m.arity[face])

Returned == last.result \in {"Ok", "Err"}

\* C3: after every successful insert_face, for every face of the mesh,
\* following next from the face's stored edge exactly arity times returns to
\* the stored edge and every edge visited has face equal to the face's key.
C3_ClosureAfterInsertFace ==
    (last.op = "insert_face" /\ last.result = "Ok") =>
        \A face \in DOMAIN faces : Closure(Mesh, face)

\* C4: remove_face of a face that exists succeeds, removes exactly the
\* arity-many boundary edges of the face and the face, and no vertex.
C4_RemoveFaceRemovesBoundary ==
    [][(IsRemoveFace /\ last'.arg[1] \in DOMAIN faces) =>
           LET face == last'.arg[1]
           IN  /\ last'.result = "Ok"
               /\ Cardinality(DOMAIN edges') = Cardinality(DOMAIN edges) - arity[face]
               /\ Cardinality(DOMAIN faces') = Cardinality(DOMAIN faces) - 1
               /\ Cardinality(DOMAIN vertices') = Cardinality(DOMAIN vertices)
               /\ \A key \in (DOMAIN edges) \ (DOMAIN edges') :
                      edges[key].face = Some(face)
      ]_vars

\* C6: remove_face of a key with no face record returns an error and leaves
\* the three storages as they were.
C6_RemoveUnknownFaceIsError ==
    [][(IsRemoveFace /\ last'.arg[1] \notin DOMAIN faces) =>
           /\ last'.result = "Err"
           /\ vertices' = vertices
           /\ edges' = edges
           /\ faces' = faces
      ]_vars

\* C7: insert_edge((a,b)) with a or b not in vertex storage returns an error
\* and leaves the three storages as they were.
C7_UnknownVertexIsError ==
    [][(IsInsertEdge /\ ~({last'.arg[1], last'.arg[2]} \subseteq DOMAIN vertices)) =>
           /\ last'.result = "Err"
           /\ vertices' = vertices
           /\ edges' = edges
           /\ faces' = faces
      ]_vars

\* C8: insert_edge((a,b)) between existing vertices returns an error when
\* a = b and when (a,b) is already stored, and leaves the edge records and
\* edge_count as they were.
C8_LoopOrDuplicateIsError ==
    [][(/\ IsInsertEdge
        /\ {last'.arg[1], last'.arg[2]} \subseteq DOMAIN vertices
        /\ \/ last'.arg[1] = last'.arg[2]
           \/ last'.arg \in DOMAIN edges) =>
           /\ last'.result = "Err"
           /\ edges' = edges
      ]_vars

\* C9: in every state the calls of the API reach, an edge e = (A,B) with
\* opposite = Some(f) has f = (B,A), f stored and f.opposite = Some(e).
C9_SymmetricOpposite ==
    Returned =>
        \A key \in DOMAIN edges :
            edges[key].opposite # None =>
                /\ edges[key].opposite = Some(Reverse(key))
                /\ Reverse(key) \in DOMAIN edges
                /\ edges[Reverse(key)].opposite = Some(key)

\* C10: in every state the calls of the API reach, every key held in a
\* connectivity field has a record: Vertex.edge, Edge.vertex, Edge.opposite,
\* Edge.next, Edge.face and Face.edge.
C10_NoDanglingKeys ==
    Returned =>
        /\ \A v \in DOMAIN vertices :
               vertices[v].edge # None => vertices[v].edge[1] \in DOMAIN edges
        /\ \A key \in DOMAIN edges :
               /\ edges[key].vertex \in DOMAIN vertices
               /\ edges[key].opposite # None => edges[key].opposite[1] \in DOMAIN edges
               /\ edges[key].next # None => edges[key].next[1] \in DOMAIN edges
               /\ edges[key].face # None => edges[key].face[1] \in DOMAIN faces
        /\ \A face \in DOMAIN faces : faces[face].edge \in DOMAIN edges

\* The directed edges of a stream of triangles, in order.
RECURSIVE DirectedEdges(_)
DirectedEdges(stream) ==
    IF stream = <<>>
    THEN <<>>
    ELSE << <<stream[1][1], stream[1][2]>>, <<stream[1][2], stream[1][3]>>,
            <<stream[1][3], stream[1][1]>> >> \o DirectedEdges(Tail(stream))

\* A triangulated closed surface: no triangle repeats a vertex, no directed
\* edge is used twice, and every directed edge has its reverse in the stream.
ClosedSurface(stream) ==
    LET directed == DirectedEdges(stream)
    IN  /\ stream # <<>>
        /\ \A i \in 1 .. Len(directed) : directed[i][1] # directed[i][2]
        /\ \A i, j \in 1 .. Len(directed) : directed[i] = directed[j] => i = j
        /\ \A i \in 1 .. Len(directed) :
               \E j \in 1 .. Len(directed) : directed[j] = Reverse(directed[i])

UniquePositions(stream) ==
    {stream[i][k] : i \in 1 .. Len(stream), k \in 1 .. 3}

\* C5: from_iter over a triangulated closed surface of T triangles and V
\* unique vertex positions returns a mesh with vertex_count = V,
\* edge_count = 3T and face_count = T.
C5_ClosedSurfaceCounts ==
    (last.op = "from_iter" /\ ClosedSurface(input)) =>
        /\ last.result = "Ok"
        /\ vertex_count(Mesh) = Cardinality(UniquePositions(input))
        /\ edge_count(Mesh) = 3 * Len(input)
        /\ face_count(Mesh) = Len(input)

\* The links of a mesh: its records without their payloads.
Connectivity(m) ==
    [vertices |-> [key \in DOMAIN m.vertices |-> [edge |-> m.vertices[key].edge]],
     edges |-> [key \in DOMAIN m.edges |->
                   [vertex |-> m.edges[key].vertex,
                    opposite |-> m.edges[key].opposite,
                    next |-> m.edges[key].next,
                    face |-> m.edges[key].face]],
     faces |-> [key \in DOMAIN m.faces |-> [edge |-> m.faces[key].edge]]]

\* C11: from_geometry leaves the vertex, edge and face key sets and every
\* Vertex.edge, Edge.vertex, Edge.opposite, Edge.next, Edge.face and
\* Face.edge as they were, so that after any conversions, a conversion and
\* its inverse among them, the links are those of the mesh first built.
C11_ConversionKeepsConnectivity ==
    [][IsCall("from_geometry") =>
           /\ DOMAIN vertices' = DOMAIN vertices
           /\ DOMAIN edges' = DOMAIN edges
           /\ DOMAIN faces' = DOMAIN faces
           /\ Connectivity(Mesh') = Connectivity(Mesh)
           /\ Connectivity(Mesh') = Connectivity(FromIter(input).m)
      ]_vars

\* A mesh with a face and a pair of opposites, widened and narrowed back:
\* its payloads are those it was built with.
C11_Witness ==
    /\ last.op = "from_geometry"
    /\ last.arg = <<"narrow">>
    /\ calls = 3
    /\ faces # <<>>
    /\ \E key \in DOMAIN edges : edges[key].opposite # None /\ edges[key].next # None
    /\ \E key \in DOMAIN vertices : vertices[key].geometry = 2
    /\ vertices = FromIter(input).m.vertices

\* The instance of the test: 6 triangles over 5 positions give 5, 18, 6.
C5_Witness ==
    /\ last.op = "from_iter"
    /\ last.result = "Ok"
    /\ ClosedSurface(input)
    /\ Len(input) = 6
    /\ Cardinality(UniquePositions(input)) = 5
    /\ vertex_count(Mesh) = 5
    /\ edge_count(Mesh) = 18
    /\ face_count(Mesh) = 6

\* The edge list is a closed cycle by vertex adjacency: the destination of
\* each key is the source of the key that follows it, circularly.
AdjacencyClosed(es) ==
    \A i \in 1 .. Len(es) : es[i][2] = es[(i % Len(es)) + 1][1]

\* The next and face fields of the stored edges are as they were.
LinksUnchanged ==
    \A key \in (DOMAIN edges) \cap (DOMAIN edges') :
        /\ edges'[key].next = edges[key].next
        /\ edges'[key].face = edges[key].face

\* C12: insert_face with 3 or more stored edge keys that are not a closed
\* cycle by vertex adjacency returns an error, makes no face record and
\* changes the next and face field of no edge.
C12_CycleMismatchIsError ==
    [][(/\ IsInsertFace
        /\ Len(last'.arg) >= 3
        /\ \A i \in 1 .. Len(last'.arg) : last'.arg[i] \in DOMAIN edges
        /\ ~AdjacencyClosed(last'.arg)) =>
           /\ last'.result = "Err"
           /\ faces' = faces
           /\ LinksUnchanged
      ]_vars

\* C13: insert_face with 3 or more edge keys, one of them with no record,
\* reports a failure that can be handled, leaves face_count as it was and
\* changes the next and face field of no edge.
C13_MissingEdgeCommitsNothing ==
    [][(/\ IsInsertFace
        /\ Len(last'.arg) >= 3
        /\ \E i \in 1 .. Len(last'.arg) : last'.arg[i] \notin DOMAIN edges) =>
           /\ last'.result = "Err"
           /\ Cardinality(DOMAIN faces') = Cardinality(DOMAIN faces)
           /\ DOMAIN faces' = DOMAIN faces
           /\ LinksUnchanged
      ]_vars

\* Following next from the stored edge of the face comes back to the stored
\* edge: no key on the way lacks a record or a next, and none is met twice
\* before the stored edge is.
RECURSIVE ReturnsToStart(_, _, _, _)
ReturnsToStart(m, start, current, seen) ==
    /\ current \in DOMAIN m.edges
    /\ m.edges[current].next # None
    /\ \/ m.edges[current].next = Some(start)
       \/ /\ m.edges[current].next[1] \notin seen
          /\ ReturnsToStart(m, start, m.edges[current].next[1], seen \cup {current})

\* C14: in every state reached by calls that returned, the walk along next
\* from the stored edge of every face reaches the stored edge again, so the
\* boundary of the face is a finite sequence.
C14_BoundaryWalkTerminates ==
    Returned =>
        \A face \in DOMAIN faces :
            /\ ReturnsToStart(Mesh, faces[face].edge, faces[face].edge, {})
            /\ FaceEdges(Mesh, face).status = "Ok"

\* C15: from_iter over any stream of T triangles returns a mesh with
\* edge_count = 3T and face_count = T.
C15_ThreeEdgesPerTriangle ==
    last.op = "from_iter" =>
        /\ last.result = "Ok"
        /\ edge_count(Mesh) = 3 * Len(input)
        /\ face_count(Mesh) = Len(input)

\* C16: a successful insert_face over n >= 3 stored edge keys makes exactly
\* one face record, whose edge is the first key of the list; every listed
\* key has next = the key that follows it circularly and face = the new
\* face; no vertex and no edge outside the list is modified, and
\* vertex_count and edge_count are as they were.
C16_InsertFacePostcondition ==
    [][(/\ IsInsertFace
        /\ last'.result = "Ok"
        /\ Len(last'.arg) >= 3
        /\ \A i \in 1 .. Len(last'.arg) : last'.arg[i] \in DOMAIN edges) =>
           LET es == last'.arg
               n == Len(es)
               face == last'.ret[1]
               listed == {es[i] : i \in 1 .. n}
           IN  /\ face \notin DOMAIN faces
               /\ DOMAIN faces' = (DOMAIN faces) \cup {face}
               /\ \A other \in DOMAIN faces : faces'[other] = faces[other]
               /\ faces'[face].edge = es[1]
               /\ \A i \in 1 .. n :
                      /\ edges'[es[i]].next = Some(es[(i % n) + 1])
                      /\ edges'[es[i]].face = Some(face)
               /\ vertices' = vertices
               /\ DOMAIN edges' = DOMAIN edges
               /\ \A key \in (DOMAIN edges) \ listed : edges'[key] = edges[key]
               /\ Cardinality(DOMAIN edges') = Cardinality(DOMAIN edges)
               /\ Cardinality(DOMAIN vertices') = Cardinality(DOMAIN vertices)
      ]_vars

\* The boundary edges of a face: the keys of the walk from its stored edge.
Boundary(m, face) ==
    LET keys == FaceEdges(m, face).keys
    IN  {keys[i] : i \in 1 .. Len(keys)}

\* C17: remove_face(f) clears the cached edge of the source vertex a of
\* every boundary edge (a,b) of f that a's cache held, so no cache names an
\* edge the call deleted, and leaves the caches that held other edges alone.
C17_RemoveFaceClearsCaches ==
    [][(IsRemoveFace /\ last'.arg[1] \in DOMAIN faces) =>
           LET boundary == Boundary(Mesh, last'.arg[1])
               deleted == (DOMAIN edges) \ (DOMAIN edges')
           IN  /\ DOMAIN vertices' = DOMAIN vertices
               /\ \A v \in DOMAIN vertices :
                      LET cached == vertices[v].edge
                      IN  IF cached # None /\ cached[1] \in boundary /\ cached[1][1] = v
                          THEN vertices'[v].edge = None
                          ELSE vertices'[v].edge = cached
               /\ \A v \in DOMAIN vertices' :
                      vertices'[v].edge # None => vertices'[v].edge[1] \notin deleted
      ]_vars

\* C18: remove_face(f) leaves the opposite (b,a) of every boundary edge
\* (a,b) of f, when it is stored and no boundary edge of f itself, stored
\* with opposite = None, and changes the opposite field of no other edge.
C18_RemoveFaceClearsOpposites ==
    [][(IsRemoveFace /\ last'.arg[1] \in DOMAIN faces) =>
           LET boundary == Boundary(Mesh, last'.arg[1])
               outside == {Reverse(e) : e \in boundary} \ boundary
           IN  \A key \in (DOMAIN edges) \ boundary :
                   /\ key \in DOMAIN edges'
                   /\ IF key \in outside
                      THEN edges'[key].opposite = None
                      ELSE edges'[key].opposite = edges[key].opposite
      ]_vars

\* No remove_face has been called: a removal that returns leaves fewer
\* faces than were made, and no call follows one that does not return.
NoRemoval == last.op # "remove_face" /\ Cardinality(DOMAIN faces) = fgen

\* C19: while only inserts are made, a successful insert_edge((a,b)) sets
\* the cached edge of a to (a,b) and changes no other vertex, and no other
\* call changes a cached edge; so the cache of a vertex holds the edge
\* inserted last from it, and None when no edge was inserted from it.
C19_CacheIsLastWriterWins ==
    [][NoRemoval' =>
           /\ (IsInsertEdge /\ last'.result = "Ok") =>
                  /\ vertices'[last'.arg[1]].edge = Some(last'.arg)
                  /\ DOMAIN vertices' = DOMAIN vertices
                  /\ \A v \in (DOMAIN vertices) \ {last'.arg[1]} :
                         vertices'[v].edge = vertices[v].edge
           /\ ~IsInsertEdge =>
                  \A v \in DOMAIN vertices : vertices'[v].edge = vertices[v].edge
           /\ last'.result \in {"Ok", "Err"} =>
                  \A v \in DOMAIN vertices' :
                      IF \E key \in DOMAIN edges' : key[1] = v
                      THEN /\ vertices'[v].edge # None
                           /\ vertices'[v].edge[1] \in DOMAIN edges'
                           /\ vertices'[v].edge[1][1] = v
                      ELSE vertices'[v].edge = None
      ]_vars

\* The second edge inserted from a vertex is the cached one, while another
\* vertex has no edge and a third keeps its own.
C19_Witness ==
    /\ NoRemoval
    /\ last.op = "insert_edge"
    /\ last.result = "Ok"
    /\ vertices[last.arg[1]].edge = Some(last.arg)
    /\ \E key \in DOMAIN edges : key[1] = last.arg[1] /\ key # last.arg
    /\ \E v \in DOMAIN vertices : vertices[v].edge = None
    /\ \E v \in DOMAIN vertices :
           /\ v # last.arg[1]
           /\ vertices[v].edge # None
           /\ vertices[v].edge[1][1] = v

\* C20: insert_vertex succeeds, returns a key that no stored vertex has,
\* stores under it a vertex with no cached edge, raises vertex_count by 1,
\* and leaves every other vertex, every edge and every face as it was.
C20_InsertVertexFrame ==
    [][IsInsertVertex =>
           /\ last'.result = "Ok"
           /\ last'.ret # None
           /\ last'.ret[1] \notin DOMAIN vertices
           /\ DOMAIN vertices' = (DOMAIN vertices) \cup {last'.ret[1]}
           /\ vertices'[last'.ret[1]].edge = None
           /\ Cardinality(DOMAIN vertices') = Cardinality(DOMAIN vertices) + 1
           /\ \A v \in DOMAIN vertices : vertices'[v] = vertices[v]
           /\ edges' = edges
           /\ faces' = faces
      ]_vars

\* A vertex inserted into a mesh that holds vertices, edges and a face.
C20_Witness ==
    /\ last.op = "insert_vertex"
    /\ last.result = "Ok"
    /\ Cardinality(DOMAIN vertices) >= 2
    /\ vertices[last.ret[1]].edge = None
    /\ edges # <<>>
    /\ faces # <<>>

\* The last position of a key in an edge list.
LastIndexOf(es, key) ==
    CHOOSE i \in 1 .. Len(es) :
        /\ es[i] = key
        /\ \A j \in 1 .. Len(es) : es[j] = key => j <= i

\* C21: insert_face over n >= 3 stored edge keys, one of them bound to an
\* existing face g, succeeds; every listed edge bound to a face gets
\* face = the new face and next = the key that follows it in the list (its
\* last place in the list, when it is listed twice), and the record of
\* every existing face is left as it was.
C21_BoundEdgesAreRebound ==
    [][(/\ IsInsertFace
        /\ Len(last'.arg) >= 3
        /\ \A i \in 1 .. Len(last'.arg) : last'.arg[i] \in DOMAIN edges
        /\ \E i \in 1 .. Len(last'.arg) :
               /\ edges[last'.arg[i]].face # None
               /\ edges[last'.arg[i]].face[1] \in DOMAIN faces) =>
           LET es == last'.arg
               n == Len(es)
           IN  /\ last'.result = "Ok"
               /\ last'.ret # None
               /\ last'.ret[1] \notin DOMAIN faces
               /\ last'.ret[1] \in DOMAIN faces'
               /\ \A i \in 1 .. n :
                      edges[es[i]].face # None =>
                          /\ edges'[es[i]].face = Some(last'.ret[1])
                          /\ edges'[es[i]].next = Some(es[(LastIndexOf(es, es[i]) % n) + 1])
               /\ \A g \in DOMAIN faces :
                      /\ g \in DOMAIN faces'
                      /\ faces'[g] = faces[g]
      ]_vars

\* A face made over edges between distinct stored vertices that were all
\* bound to face 0, whose record still names its edge.
C21_Witness ==
    /\ last.op = "insert_face"
    /\ last.result = "Ok"
    /\ last.ret = Some(1)
    /\ DOMAIN faces = {0, 1}
    /\ \A i \in 1 .. Len(last.arg) :
           /\ last.arg[i][1] # last.arg[i][2]
           /\ {last.arg[i][1], last.arg[i][2]} \subseteq DOMAIN vertices
           /\ edges[last.arg[i]].face = Some(1)
    /\ faces[0].edge \in {last.arg[i] : i \in 1 .. Len(last.arg)}
    /\ faces[0].edge # faces[1].edge

\* C22: in every state the calls of the API reach, the edge stored under
\* the key (a,b) has vertex = b, and a cached edge of a vertex is a key
\* whose first component is the key of that vertex.
C22_KeyNamesEndpoints ==
    /\ \A key \in DOMAIN edges : edges[key].vertex = key[2]
    /\ \A v \in DOMAIN vertices :
           vertices[v].edge # None => vertices[v].edge[1][1] = v

\* Edges in both directions between two vertices, each cached by its
\* source, after a face was made and removed.
C22_Witness ==
    /\ last.op = "remove_face"
    /\ last.result = "Ok"
    /\ \E key \in DOMAIN edges :
           /\ key[1] # key[2]
           /\ {key[1], key[2]} \subseteq DOMAIN vertices
           /\ edges[key].vertex = key[2]
           /\ vertices[key[1]].edge = Some(key)
           /\ vertices[key[2]].edge # None

\* C23: bind fills the one empty slot it is given a storage for and leaves
\* the other three slots as they were, for each slot and in any order; so
\* once the storages v, a, e, f are bound into Core::empty(), in any order,
\* into_storage returns (v, a, e, f).
C23_BindFillsOneSlot ==
    [][/\ IsCall("bind") =>
              LET slot == last'.arg[1]
                  source == last'.arg[2]
              IN  /\ core[slot] = Unit
                  /\ core'[slot] = source
                  /\ \A i \in 1 .. 4 : Slots[i] # slot => core'[Slots[i]] = core[Slots[i]]
       /\ IsCall("into_storage") =>
              /\ \A i \in 1 .. 4 : last'.ret[1][i] \in {Unit, input[i]}
              /\ calls = 4 => last'.ret = Some(input)
      ]_vars

\* into_storage after the four binds returns the four storages, which are
\* not all the same.
C23_Witness ==
    /\ last.op = "into_storage"
    /\ calls = 5
    /\ last.ret = Some(input)
    /\ input[1] # input[2]
    /\ input[3] # input[4]
    /\ core = [vertices |-> input[1], arcs |-> input[2],
               edges |-> input[3], faces |-> input[4]]

\* Every index of the buffer is less than its vertex count.
IndicesValid(b) ==
    \A i \in 1 .. Len(b.indeces) : b.indeces[i] \in 0 .. (Len(b.vertices) - 1)

\* C24: after self.append(other), with the indices of self and of other
\* valid before, the vertex count and the index count of self are the sums
\* of the two, the former indices of self are as they were, each index
\* taken from other is its old value plus the former vertex count of self,
\* every index of self is valid, and other has no indices and no vertices.
C24_AppendKeepsIndicesValid ==
    [][IsCall("append") =>
           LET other == last'.arg[1]
               drained == last'.ret[1]
               vertexCount == Len(buffer.vertices)
               indexCount == Len(buffer.indeces)
           IN  (IndicesValid(buffer) /\ IndicesValid(other)) =>
                   /\ Len(buffer'.vertices) = vertexCount + Len(other.vertices)
                   /\ Len(buffer'.indeces) = indexCount + Len(other.indeces)
                   /\ \A i \in 1 .. indexCount : buffer'.indeces[i] = buffer.indeces[i]
                   /\ \A i \in 1 .. Len(other.indeces) :
                          buffer'.indeces[indexCount + i] = other.indeces[i] + vertexCount
                   /\ IndicesValid(buffer')
                   /\ drained.indeces = <<>>
                   /\ drained.vertices = <<>>
      ]_vars

\* The sphere of the test (18 indices, 5 vertices) appended to a buffer
\* that holds vertices: its indices are raised by their number.
C24_Witness ==
    /\ last.op = "append"
    /\ calls >= 2
    /\ Len(last.arg[1].indeces) = 18
    /\ Len(last.arg[1].vertices) = 5
    /\ Len(buffer.vertices) > 5
    /\ Len(buffer.indeces) > 18
    /\ IndicesValid(buffer)
    /\ buffer.indeces[Len(buffer.indeces)] =
           last.arg[1].indeces[18] + (Len(buffer.vertices) - 5)

====
